---- MODULE Spec2Model ----
(***************************************************************************)
(* Cache-aside image gallery server (Express + Redis + Cloudinary).        *)
(*                                                                         *)
(* The model covers the process-wide redisConnected flag, the single       *)
(* Redis entry under IMAGES_CACHE_KEY with its expiry, the asynchronous    *)
(* handlers of GET /api/images and POST /api/clear-cache (one action per   *)
(* await point), the Cloudinary fetcher and the JSON text that travels     *)
(* through the cache.                                                      *)
(*                                                                         *)
(* JavaScript strings are sequences of one-character strings; JSON text is *)
(* such a sequence too, produced and parsed character by character.        *)
(***************************************************************************)
EXTENDS Integers, Sequences, FiniteSets, TLC

(***************************************************************************)
(* Bounds of the model                                                     *)
(***************************************************************************)
NumSlots == 2   \* images requests that can be in flight together
MaxNow == 3     \* last reading of performance.now() the page can take

(***************************************************************************)
(* Program constants                                                       *)
(***************************************************************************)
\* the TTL given in minutes where setEx takes seconds
CacheTtlInMinutes == 3600 \div 60

CACHE_TTL == 3600

Slots == 1..NumSlots

\* amounts of seconds by which the clock advances: one second short of the
\* TTL, and all of it
TickSteps == {CACHE_TTL - 1, CACHE_TTL}

(***************************************************************************)
(* JavaScript values                                                       *)
(***************************************************************************)
JStr(s) == [t |-> "string", s |-> s]

Undefined == [t |-> "undefined", s |-> <<>>]

\* property read o[k]: a missing property reads as undefined
Field(o, k) == IF k \in DOMAIN o THEN o[k] ELSE Undefined

K_public_id    == <<"p","u","b","l","i","c","_","i","d">>
K_url          == <<"u","r","l">>
K_original_url == <<"o","r","i","g","i","n","a","l","_","u","r","l">>
K_title        == <<"t","i","t","l","e">>

\* a serialization that loses the title
DescriptorKeysWithoutTitle == <<"public_id", "url", "original_url">>

\* property names of an image descriptor, in the order the object literal
\* creates them
DescriptorKeys == <<"public_id", "url", "original_url", "title">>

KeyChars(k) ==
    CASE k = "public_id"    -> K_public_id
      [] k = "url"          -> K_url
      [] k = "original_url" -> K_original_url
      [] k = "title"        -> K_title

KeyOfChars(cs) ==
    CASE cs = K_public_id    -> "public_id"
      [] cs = K_url          -> "url"
      [] cs = K_original_url -> "original_url"
      [] cs = K_title        -> "title"
      [] OTHER               -> "?"

(***************************************************************************)
(* JSON.stringify                                                          *)
(***************************************************************************)
QUOTE     == "\""
BACKSLASH == "\\"

RECURSIVE QuoteChars(_)
\* body of a JSON string literal: quote and backslash are escaped
QuoteChars(s) ==
    IF s = <<>> THEN <<>>
    ELSE (IF Head(s) \in {QUOTE, BACKSLASH}
             THEN <<BACKSLASH, Head(s)>>
             ELSE <<Head(s)>>) \o QuoteChars(Tail(s))

JSONQuote(s) == <<QUOTE>> \o QuoteChars(s) \o <<QUOTE>>

RECURSIVE SerializeProps(_, _, _)
\* the properties of o from position i of DescriptorKeys on; a property
\* whose value is undefined is left out
SerializeProps(o, i, first) ==
    IF i > Len(DescriptorKeys) THEN <<>>
    ELSE LET k == DescriptorKeys[i]
             v == Field(o, k)
         IN  IF v.t = "undefined"
                THEN SerializeProps(o, i + 1, first)
                ELSE (IF first THEN <<>> ELSE <<",">>)
                     \o JSONQuote(KeyChars(k)) \o <<":">> \o JSONQuote(v.s)
                     \o SerializeProps(o, i + 1, FALSE)

SerializeObject(o) == <<"{">> \o SerializeProps(o, 1, TRUE) \o <<"}">>

RECURSIVE SerializeElems(_, _)
SerializeElems(a, i) ==
    IF i > Len(a) THEN <<>>
    ELSE (IF i = 1 THEN <<>> ELSE <<",">>)
         \o SerializeObject(a[i]) \o SerializeElems(a, i + 1)

JSONstringify(a) == <<"[">> \o SerializeElems(a, 1) \o <<"]">>

(***************************************************************************)
(* JSON.parse, for the texts JSON.stringify produces here: an array of     *)
(* objects whose values are strings.  Each parser returns the value read   *)
(* and the position after it.                                              *)
(***************************************************************************)
RECURSIVE ParseChars(_, _, _)
\* t[i] is the character after the opening quote
ParseChars(t, i, acc) ==
    IF t[i] = QUOTE THEN [v |-> acc, next |-> i + 1]
    ELSE IF t[i] = BACKSLASH
            THEN ParseChars(t, i + 2, Append(acc, t[i + 1]))
            ELSE ParseChars(t, i + 1, Append(acc, t[i]))

ParseString(t, i) == ParseChars(t, i + 1, <<>>)

RECURSIVE ParseProps(_, _, _)
\* t[i] is the opening quote of a property name
ParseProps(t, i, obj) ==
    LET k   == ParseString(t, i)
        v   == ParseString(t, k.next + 1)
        key == KeyOfChars(k.v)
        o2  == [x \in DOMAIN obj \cup {key} |->
                    IF x = key THEN JStr(v.v) ELSE obj[x]]
    IN  IF t[v.next] = ","
           THEN ParseProps(t, v.next + 1, o2)
           ELSE [v |-> o2, next |-> v.next + 1]

EmptyObject == [x \in {} |-> Undefined]

\* t[i] is "{"
ParseObject(t, i) ==
    IF t[i + 1] = "}" THEN [v |-> EmptyObject, next |-> i + 2]
    ELSE ParseProps(t, i + 1, EmptyObject)

RECURSIVE ParseElems(_, _, _)
\* t[i] is "{"
ParseElems(t, i, acc) ==
    LET o == ParseObject(t, i)
    IN  IF t[o.next] = ","
           THEN ParseElems(t, o.next + 1, Append(acc, o.v))
           ELSE Append(acc, o.v)

JSONparse(t) == IF t[2] = "]" THEN <<>> ELSE ParseElems(t, 2, <<>>)

(***************************************************************************)
(* fetchImagesFromCloudinary                                               *)
(***************************************************************************)
RECURSIVE LastSegment(_, _)
\* public_id.split('/').pop(): what follows the last slash
LastSegment(s, acc) ==
    IF s = <<>> THEN acc
    ELSE IF Head(s) = "/" THEN LastSegment(Tail(s), <<>>)
         ELSE LastSegment(Tail(s), Append(acc, Head(s)))

\* cloudinary.url(public_id, {...}): a delivery URL ending in the public id
CloudinaryUrl(pid) == <<"c", "/">> \o pid

MapResource(resource) ==
    [public_id    |-> JStr(resource.public_id),
     url          |-> JStr(CloudinaryUrl(resource.public_id)),
     original_url |-> resource.secure_url,
     title        |-> JStr(LastSegment(resource.public_id, <<>>))]

MapResources(resources) ==
    [i \in 1..Len(resources) |-> MapResource(resources[i])]

FetchErrorMessage == "Failed to fetch images from Cloudinary"

\* a catch block that swallows the error and returns no images
FetchImagesSwallowingErrors(out) ==
    IF out.kind = "resources"
       THEN [ok |-> TRUE, images |-> MapResources(out.resources), error |-> ""]
       ELSE [ok |-> TRUE, images |-> <<>>, error |-> ""]

\* outcome of one call: the mapped images, or the Error thrown by the catch
\* block when the search rejects or result.resources is not an array
FetchImagesFromCloudinary(out) ==
    IF out.kind = "resources"
       THEN [ok |-> TRUE,  images |-> MapResources(out.resources), error |-> ""]
       ELSE [ok |-> FALSE, images |-> <<>>, error |-> FetchErrorMessage]

\* what the search can settle with
ResA == [public_id |-> <<"a">>, secure_url |-> JStr(<<"s">>)]
ResB == [public_id |-> <<"d", "/", QUOTE, BACKSLASH>>, secure_url |-> Undefined]

UpstreamOutcomes ==
    { [kind |-> "resources", resources |-> <<>>],
      [kind |-> "resources", resources |-> <<ResB, ResA>>],
      [kind |-> "rejected",  resources |-> <<>>],
      [kind |-> "malformed", resources |-> <<>>] }

(***************************************************************************)
(* State                                                                   *)
(***************************************************************************)
VARIABLES
    redisConnected, \* the process-wide flag
    connectState,   \* the promise of redisClient.connect()
    storeUp,        \* whether the Redis server answers commands
    entry,          \* what Redis holds under IMAGES_CACHE_KEY, with the
                    \* seconds it has left to live
    pc,             \* per images request in flight: where its handler is
    images,         \* per images request in flight: the local of that name
    setArgs,        \* per images request in flight: its setEx command
    fetchCalls,     \* per images request in flight: calls of
                    \* fetchImagesFromCloudinary so far
    seen,           \* per images request in flight: what its get found
    upstream,       \* per images request in flight: how its Cloudinary
                    \* search settled, "none" before
    sent,           \* the response sent in the last step, if any, with the
                    \* record of the request it answers
    cpc,            \* the clear-cache request: where its handler is
    entrySnap,      \* the images array whose text the entry holds
    gone,           \* how the last entry went away ("clear" or "expiry") while
                    \* nothing was stored since, else "none"
    storedAgo       \* seconds since the setEx that stored the entry was
                    \* executed, 0 while the key is absent

serverVars == <<redisConnected, connectState, storeUp, entry, pc, images,
                setArgs, fetchCalls, seen, upstream, sent, cpc, entrySnap,
                gone, storedAgo>>

\* the gallery page (src/frontend/app/page.tsx)
VARIABLES
    ppc,            \* where fetchImages is: "mounted" (effect not yet run),
                    \* "fetch", "json" or "done"
    pageImages,     \* the state images
    loading,        \* the state loading
    pageError,      \* the state error
    pageCached,     \* the state cached
    loadTime,       \* the state loadTime
    startTime,      \* the local of fetchImages
    response,       \* the local of fetchImages
    now,            \* performance.now()
    outcome         \* how the fetch of the page settled, "pending" before

pageVars == <<ppc, pageImages, loading, pageError, pageCached, loadTime,
              startTime, response, now, outcome>>

vars == <<serverVars, pageVars>>

reqVars   == <<pc, images, setArgs, fetchCalls, seen, upstream>>
connVars  == <<redisConnected, connectState>>

NoEntry == [present |-> FALSE, val |-> <<>>, ttl |-> 0]

Null == [isNull |-> TRUE, s |-> <<>>]

NoSetEx == [issued |-> FALSE, seconds |-> 0, value |-> <<>>]

NotSeen == [read |-> FALSE, present |-> FALSE, after |-> "none"]

NoneSent == [route |-> "none", status |-> 0, success |-> FALSE,
             cached |-> FALSE, data |-> <<>>, error |-> "",
             fetchCalls |-> 0, seen |-> NotSeen, upstream |-> "none",
             overwrote |-> FALSE, redis |-> ""]

RedisErrorMessage == "Redis command failed"

NullError == [isNull |-> TRUE, msg |-> <<>>]

NoResponse == [ok |-> FALSE, status |-> 0]

\* the first render: the arguments of the useState calls
PageInit ==
    /\ ppc = "mounted"
    /\ pageImages = <<>>
    /\ loading = TRUE
    /\ pageError = NullError
    /\ pageCached = FALSE
    /\ loadTime = 0
    /\ startTime = 0
    /\ response = NoResponse
    /\ now = 0
    /\ outcome = "pending"

Init ==
    /\ redisConnected = FALSE
    /\ connectState = "pending"
    /\ storeUp = TRUE
    /\ entry = NoEntry
    /\ pc = [r \in Slots |-> "idle"]
    /\ images = [r \in Slots |-> <<>>]
    /\ setArgs = [r \in Slots |-> NoSetEx]
    /\ fetchCalls = [r \in Slots |-> 0]
    /\ seen = [r \in Slots |-> NotSeen]
    /\ upstream = [r \in Slots |-> "none"]
    /\ sent = NoneSent
    /\ cpc = "idle"
    /\ entrySnap = <<>>
    /\ gone = "none"
    /\ storedAgo = 0
    /\ PageInit

(***************************************************************************)
(* Redis                                                                   *)
(***************************************************************************)
\* GET: the stored string, or null when the key is absent
RedisGet(e) == IF e.present THEN [isNull |-> FALSE, s |-> e.val] ELSE Null

\* SET with NX and EX: keeps what the key already holds
RedisSetIfAbsent(e, seconds, value) ==
    IF e.present THEN e
    ELSE [present |-> TRUE, val |-> value, ttl |-> seconds]

\* SETEX key seconds value on entry e: replaces the value and restarts the
\* time to live whatever the key held
RedisSetEx(e, seconds, value) ==
    [present |-> TRUE, val |-> value, ttl |-> seconds]

\* DEL of another key
RedisDelOtherKey(e) == e

\* DEL key
RedisDel(e) == NoEntry

\* a read that restarts the time to live (GETEX)
EntryAfterGetEx(e) == IF e.present THEN [e EXCEPT !.ttl = 3600] ELSE e

\* the entry after a GET: a read changes neither value nor time to live
EntryAfterGet(e) == e

\* a key stored without a time to live (SET): it never expires
RedisPersist(e, d) == e

\* the key after d more seconds: gone once its time to live is used up
RedisExpire(e, d) ==
    IF e.present /\ d >= e.ttl THEN NoEntry
    ELSE IF e.present THEN [e EXCEPT !.ttl = @ - d]
    ELSE e

\* a test that takes the text of an empty array for falsy as well
TruthyNonEmptyArray(c) == ~c.isNull /\ c.s # <<>> /\ c.s # <<"[", "]">>

\* if (cachedImages): null and the empty string are falsy
Truthy(c) == ~c.isNull /\ c.s # <<>>

(***************************************************************************)
(* redisClient.connect()                                                   *)
(***************************************************************************)
ConnectResolved ==
    /\ connectState = "pending"
    /\ storeUp
    /\ connectState' = "resolved"
    /\ redisConnected' = TRUE
    /\ sent' = NoneSent
    /\ UNCHANGED <<storeUp, entry, reqVars, cpc, entrySnap, gone, storedAgo>>
    /\ UNCHANGED pageVars

ConnectRejected ==
    /\ connectState = "pending"
    /\ ~storeUp
    /\ connectState' = "rejected"
    /\ sent' = NoneSent
    /\ UNCHANGED <<redisConnected, storeUp, entry, reqVars, cpc, entrySnap,
                   gone, storedAgo>>
    /\ UNCHANGED pageVars

(***************************************************************************)
(* Environment: the Redis server and the clock                             *)
(***************************************************************************)
\* an 'error' listener that marks the cache unavailable
StoreDownClearingFlag ==
    /\ storeUp
    /\ storeUp' = FALSE
    /\ redisConnected' = FALSE
    /\ sent' = NoneSent
    /\ UNCHANGED <<connectState, entry, reqVars, cpc, entrySnap, gone,
                   storedAgo>>
    /\ UNCHANGED pageVars

StoreDown ==
    /\ storeUp
    /\ storeUp' = FALSE
    /\ sent' = NoneSent
    /\ UNCHANGED <<connVars, entry, reqVars, cpc, entrySnap, gone, storedAgo>>
    /\ UNCHANGED pageVars

StoreUp ==
    /\ ~storeUp
    /\ storeUp' = TRUE
    /\ sent' = NoneSent
    /\ UNCHANGED <<connVars, entry, reqVars, cpc, entrySnap, gone, storedAgo>>
    /\ UNCHANGED pageVars

\* d seconds pass while the key is set
Tick(d) ==
    /\ entry.present
    /\ entry' = RedisExpire(entry, d)
    /\ gone' = IF ~entry'.present THEN "expiry" ELSE gone
    /\ storedAgo' = IF entry'.present THEN storedAgo + d ELSE 0
    /\ sent' = NoneSent
    /\ UNCHANGED <<connVars, storeUp, reqVars, cpc, entrySnap>>
    /\ UNCHANGED pageVars

(***************************************************************************)
(* GET /api/images                                                         *)
(***************************************************************************)
\* the request of slot r is answered: the response goes out with the record
\* of the request, and the handler's locals are dropped
Answer(r, status, success, cached, data, error, calls, sn, kind, ov) ==
    /\ sent' = [route |-> "images", status |-> status, success |-> success,
                cached |-> cached, data |-> data, error |-> error,
                fetchCalls |-> calls, seen |-> sn, upstream |-> kind,
                overwrote |-> ov, redis |-> ""]
    /\ pc' = [pc EXCEPT ![r] = "idle"]
    /\ images' = [images EXCEPT ![r] = <<>>]
    /\ setArgs' = [setArgs EXCEPT ![r] = NoSetEx]
    /\ fetchCalls' = [fetchCalls EXCEPT ![r] = 0]
    /\ seen' = [seen EXCEPT ![r] = NotSeen]
    /\ upstream' = [upstream EXCEPT ![r] = "none"]

\* a hit branch without its return: the answer goes out and the handler
\* carries on to the fetch
HitResponseFallingThrough(r, text, sn) ==
    /\ sent' = [route |-> "images", status |-> 200, success |-> TRUE,
                cached |-> TRUE, data |-> JSONparse(text), error |-> "",
                fetchCalls |-> fetchCalls[r], seen |-> sn,
                upstream |-> "none", overwrote |-> FALSE, redis |-> ""]
    /\ pc' = [pc EXCEPT ![r] = "fetch"]
    /\ seen' = [seen EXCEPT ![r] = sn]
    /\ UNCHANGED <<images, setArgs, fetchCalls, upstream>>

\* res.json({success: true, cached: true, data: JSON.parse(cachedImages)})
HitResponse(r, text, sn) ==
    Answer(r, 200, TRUE, TRUE, JSONparse(text), "", fetchCalls[r], sn,
           "none", FALSE)

\* res.json({success: true, cached: false, data: images})
MissResponse(r, imgs, calls, kind, ov) ==
    Answer(r, 200, TRUE, FALSE, imgs, "", calls, seen[r], kind, ov)

\* res.status(500).json({success: false, error: error.message})
ErrorResponse(r, message, calls, kind) ==
    Answer(r, 500, FALSE, FALSE, <<>>, message, calls, seen[r], kind, FALSE)

\* a setEx that is handed the TTL in milliseconds
SetExCommandMillis(imgs) ==
    [issued |-> TRUE, seconds |-> 3600 * 1000, value |-> JSONstringify(imgs)]

\* redisClient.setEx(IMAGES_CACHE_KEY, CACHE_TTL, JSON.stringify(images))
SetExCommand(imgs) ==
    [issued |-> TRUE, seconds |-> CACHE_TTL, value |-> JSONstringify(imgs)]

\* the request arrives; the handler runs up to its first await
ImgStart(r) ==
    /\ pc[r] = "idle"
    /\ \A q \in Slots : q < r => pc[q] # "idle"
    /\ pc' = [pc EXCEPT ![r] = IF redisConnected THEN "get" ELSE "fetch"]
    /\ sent' = NoneSent
    /\ UNCHANGED <<connVars, storeUp, entry, images, setArgs, fetchCalls, seen,
                   upstream, cpc, entrySnap, gone, storedAgo>>
    /\ UNCHANGED pageVars

\* await redisClient.get(IMAGES_CACHE_KEY) resolves
ImgGet(r) ==
    /\ pc[r] = "get"
    /\ storeUp
    /\ entry' = EntryAfterGet(entry)
    /\ LET c  == RedisGet(entry)
           sn == [read |-> TRUE, present |-> entry.present, after |-> gone]
       IN  IF Truthy(c)
              THEN HitResponse(r, c.s, sn)
              ELSE /\ pc' = [pc EXCEPT ![r] = "fetch"]
                   /\ seen' = [seen EXCEPT ![r] = sn]
                   /\ sent' = NoneSent
                   /\ UNCHANGED <<images, setArgs, fetchCalls, upstream>>
    /\ UNCHANGED <<connVars, storeUp, cpc, entrySnap, gone, storedAgo>>
    /\ UNCHANGED pageVars

\* await redisClient.get(...) rejects; the catch block answers
ImgGetRejected(r) ==
    /\ pc[r] = "get"
    /\ ~storeUp
    /\ ErrorResponse(r, RedisErrorMessage, fetchCalls[r], "none")
    /\ UNCHANGED <<connVars, storeUp, entry, cpc, entrySnap, gone, storedAgo>>
    /\ UNCHANGED pageVars

\* a handler that stores whatever images holds once the fetcher is done, the
\* empty array when it failed
ImgFetchStoringOnFailure(r, out) ==
    /\ pc[r] = "fetch"
    /\ LET f == FetchImagesFromCloudinary(out)
       IN  IF redisConnected
              THEN /\ fetchCalls' = [fetchCalls EXCEPT ![r] = @ + 1]
                   /\ images' = [images EXCEPT ![r] = f.images]
                   /\ setArgs' = [setArgs EXCEPT ![r] = SetExCommand(f.images)]
                   /\ upstream' = [upstream EXCEPT ![r] = out.kind]
                   /\ pc' = [pc EXCEPT ![r] = "set"]
                   /\ sent' = NoneSent
                   /\ UNCHANGED seen
              ELSE IF f.ok
                      THEN MissResponse(r, f.images, fetchCalls[r] + 1,
                                        out.kind, FALSE)
                      ELSE ErrorResponse(r, f.error, fetchCalls[r] + 1,
                                         out.kind)
    /\ UNCHANGED <<connVars, storeUp, entry, cpc, entrySnap, gone, storedAgo>>
    /\ UNCHANGED pageVars

\* await fetchImagesFromCloudinary() settles with outcome out of the search
ImgFetch(r, out) ==
    /\ pc[r] = "fetch"
    /\ LET f == FetchImagesFromCloudinary(out)
       IN  IF f.ok
              THEN IF redisConnected
                      THEN /\ fetchCalls' = [fetchCalls EXCEPT ![r] = @ + 1]
                           /\ images' = [images EXCEPT ![r] = f.images]
                           /\ setArgs' = [setArgs EXCEPT ![r] =
                                              SetExCommand(f.images)]
                           /\ upstream' = [upstream EXCEPT ![r] = out.kind]
                           /\ pc' = [pc EXCEPT ![r] = "set"]
                           /\ sent' = NoneSent
                           /\ UNCHANGED seen
                      ELSE MissResponse(r, f.images, fetchCalls[r] + 1,
                                        out.kind, FALSE)
              ELSE ErrorResponse(r, f.error, fetchCalls[r] + 1, out.kind)
    /\ UNCHANGED <<connVars, storeUp, entry, cpc, entrySnap, gone, storedAgo>>
    /\ UNCHANGED pageVars

\* await redisClient.setEx(...) resolves
ImgSetEx(r) ==
    /\ pc[r] = "set"
    /\ storeUp
    /\ entry' = RedisSetEx(entry, setArgs[r].seconds, setArgs[r].value)
    /\ entrySnap' = images[r]
    /\ gone' = "none"
    /\ storedAgo' = 0
    /\ MissResponse(r, images[r], fetchCalls[r], upstream[r],
                    entry.present /\ entry.val # setArgs[r].value)
    /\ UNCHANGED <<connVars, storeUp, cpc>>
    /\ UNCHANGED pageVars

\* await redisClient.setEx(...) rejects; the catch block answers
ImgSetExRejected(r) ==
    /\ pc[r] = "set"
    /\ ~storeUp
    /\ ErrorResponse(r, RedisErrorMessage, fetchCalls[r], upstream[r])
    /\ UNCHANGED <<connVars, storeUp, entry, cpc, entrySnap, gone, storedAgo>>
    /\ UNCHANGED pageVars

(***************************************************************************)
(* POST /api/clear-cache                                                   *)
(***************************************************************************)
\* res.status(status).json({success, message}) or ({success, error})
ClearResponse(status, success, message) ==
    [route |-> "clear", status |-> status, success |-> success,
     cached |-> FALSE, data |-> <<>>, error |-> message,
     fetchCalls |-> 0, seen |-> NotSeen, upstream |-> "none",
     overwrote |-> FALSE, redis |-> ""]

\* the request arrives; the handler runs up to its await, or answers 400
ClearStart ==
    /\ cpc = "idle"
    /\ IF redisConnected
          THEN /\ cpc' = "del"
               /\ sent' = NoneSent
          ELSE /\ cpc' = "idle"
               /\ sent' = ClearResponse(400, FALSE, "Redis not connected")
    /\ UNCHANGED <<connVars, storeUp, entry, reqVars, entrySnap, gone,
                   storedAgo>>
    /\ UNCHANGED pageVars

\* await redisClient.del(IMAGES_CACHE_KEY) resolves
ClearDel ==
    /\ cpc = "del"
    /\ storeUp
    /\ entry' = RedisDel(entry)
    /\ gone' = IF entry.present THEN "clear" ELSE gone
    /\ storedAgo' = 0
    /\ sent' = ClearResponse(200, TRUE, "Cache cleared")
    /\ cpc' = "idle"
    /\ UNCHANGED <<connVars, storeUp, reqVars, entrySnap>>
    /\ UNCHANGED pageVars

\* await redisClient.del(...) rejects; the catch block answers
ClearDelRejected ==
    /\ cpc = "del"
    /\ ~storeUp
    /\ sent' = ClearResponse(500, FALSE, RedisErrorMessage)
    /\ cpc' = "idle"
    /\ UNCHANGED <<connVars, storeUp, entry, reqVars, entrySnap, gone,
                   storedAgo>>
    /\ UNCHANGED pageVars

(***************************************************************************)
(* GET /health                                                             *)
(***************************************************************************)
\* res.json({status: 'OK', redis: redisConnected ? 'connected' : ...})
HealthResponse(flag) ==
    [route |-> "health", status |-> 200, success |-> FALSE,
     cached |-> FALSE, data |-> <<>>, error |-> "",
     fetchCalls |-> 0, seen |-> NotSeen, upstream |-> "none",
     overwrote |-> FALSE,
     redis |-> IF flag THEN "connected" ELSE "disconnected"]

\* the handler is synchronous: it reads the flag and answers
Health ==
    /\ sent' = HealthResponse(redisConnected)
    /\ UNCHANGED <<connVars, storeUp, entry, reqVars, cpc, entrySnap, gone,
                   storedAgo>>
    /\ UNCHANGED pageVars

Next ==
    \/ ConnectResolved
    \/ ConnectRejected
    \/ StoreDown
    \/ StoreUp
    \/ \E d \in TickSteps : Tick(d)
    \/ \E r \in Slots : ImgStart(r)
    \/ \E r \in Slots : ImgGet(r)
    \/ \E r \in Slots : ImgGetRejected(r)
    \/ \E r \in Slots, out \in UpstreamOutcomes : ImgFetch(r, out)
    \/ \E r \in Slots : ImgSetEx(r)
    \/ \E r \in Slots : ImgSetExRejected(r)
    \/ ClearStart
    \/ ClearDel
    \/ ClearDelRejected
    \/ Health

Spec == Init /\ [][Next]_vars

\* the operation the handler of request r awaits settles and the handler
\* runs on to its next await or to its end
HandlerProceeds(r) ==
    /\ pc[r] # "idle"
    /\ \E to \in {"fetch", "set", "idle"} \ {pc[r]} :
          pc' = [pc EXCEPT ![r] = to]

\* the del the clear-cache handler awaits settles and the handler ends
ClearProceeds == cpc = "del" /\ cpc' = "idle"

\* every awaited Redis command and every awaited Cloudinary search settles
FairSpec ==
    /\ Spec
    /\ \A r \in Slots : WF_pc(HandlerProceeds(r))
    /\ WF_cpc(ClearProceeds)

(***************************************************************************)
(* The gallery page: fetchImages, run once by the effect on mount          *)
(***************************************************************************)
\* response.ok: the status is in the range 200-299
ResponseOk(status) == status >= 200 /\ status <= 299

\* what fetch can resolve with
Statuses == {200, 201, 400, 500}

Responses == { [ok |-> ResponseOk(st), status |-> st] : st \in Statuses }

\* what fetch can reject with: a TypeError, an error without message, or a
\* value that is no Error
FetchRejections ==
    { [isError |-> TRUE,  message |-> <<"Failed to fetch">>],
      [isError |-> TRUE,  message |-> <<>>],
      [isError |-> FALSE, message |-> <<>>] }

\* what response.json() can reject with
JsonRejections ==
    { [isError |-> TRUE, message |-> <<"Unexpected token">>] }

\* what response.json() can resolve with
PageBodies ==
    [success : BOOLEAN,
     cached  : BOOLEAN,
     data    : {<<>>, MapResources(<<ResB, ResA>>)},
     error   : {Undefined, JStr(<<>>), JStr(<<"e">>)}]

\* err instanceof Error ? err.message : 'An error occurred'
ErrorMessageOf(err) ==
    IF err.isError THEN err.message ELSE <<"An error occurred">>

\* new Error(`API Error: ${response.status}`)
ApiError(status) ==
    [isError |-> TRUE, message |-> <<"API Error: ", status>>]

\* new Error(data.error || 'Failed to fetch images')
BodyError(data) ==
    [isError |-> TRUE,
     message |-> IF data.error.t = "string" /\ data.error.s # <<>>
                    THEN data.error.s
                    ELSE <<"Failed to fetch images">>]

\* setLoading(false) as the last statement of the try block: skipped when
\* the block throws
LoadingAfterTry(threw) == threw

\* finally { setLoading(false) }
LoadingAfterFinally(threw) == FALSE

\* the catch block, then the finally block
PageCatch(err, how) ==
    /\ pageError' = [isNull |-> FALSE, msg |-> ErrorMessageOf(err)]
    /\ loading' = LoadingAfterFinally(TRUE)
    /\ ppc' = "done"
    /\ outcome' = how
    /\ response' = NoResponse
    /\ UNCHANGED <<pageImages, pageCached, loadTime, startTime, now>>

\* the effect runs fetchImages up to await fetch(...)
PageEffect ==
    /\ ppc = "mounted"
    /\ startTime' = now
    /\ loading' = TRUE
    /\ pageError' = NullError
    /\ ppc' = "fetch"
    /\ UNCHANGED <<pageImages, pageCached, loadTime, response, now, outcome>>
    /\ UNCHANGED serverVars

\* await fetch(...) rejects: a network failure
PageFetchRejected(err) ==
    /\ ppc = "fetch"
    /\ PageCatch(err, "network")
    /\ UNCHANGED serverVars

\* await fetch(...) resolves with resp
PageFetchResolved(resp) ==
    /\ ppc = "fetch"
    /\ IF ~resp.ok
          THEN PageCatch(ApiError(resp.status), "status")
          ELSE /\ ppc' = "json"
               /\ response' = resp
               /\ UNCHANGED <<pageImages, loading, pageError, pageCached,
                              loadTime, startTime, now, outcome>>
    /\ UNCHANGED serverVars

\* await response.json() rejects: the body is no JSON
PageJsonRejected(err) ==
    /\ ppc = "json"
    /\ PageCatch(err, "json")
    /\ UNCHANGED serverVars

\* await response.json() resolves with data
PageJsonResolved(data) ==
    /\ ppc = "json"
    /\ IF data.success
          THEN /\ pageImages' = data.data
               /\ pageCached' = data.cached
               /\ loadTime' = now - startTime
               /\ loading' = LoadingAfterFinally(FALSE)
               /\ ppc' = "done"
               /\ outcome' = "success"
               /\ response' = NoResponse
               /\ UNCHANGED <<pageError, startTime, now>>
          ELSE PageCatch(BodyError(data), "body")
    /\ UNCHANGED serverVars

\* a millisecond passes on performance.now()
PageTick ==
    /\ now < MaxNow
    /\ now' = now + 1
    /\ UNCHANGED <<ppc, pageImages, loading, pageError, pageCached, loadTime,
                   startTime, response, outcome>>
    /\ UNCHANGED serverVars

PageNext ==
    \/ PageEffect
    \/ \E err \in FetchRejections : PageFetchRejected(err)
    \/ \E resp \in Responses : PageFetchResolved(resp)
    \/ \E err \in JsonRejections : PageJsonRejected(err)
    \/ \E data \in PageBodies : PageJsonResolved(data)
    \/ PageTick

PageSpec == Init /\ [][PageNext]_vars

TypeOK ==
    /\ redisConnected \in BOOLEAN
    /\ connectState \in {"pending", "resolved", "rejected"}
    /\ \A r \in Slots : pc[r] \in {"idle", "get", "fetch", "set"}
    /\ cpc \in {"idle", "del"}
    /\ sent.route \in {"none", "images", "clear", "health"}
    /\ sent.status \in {0, 200, 400, 500}
    /\ ppc \in {"mounted", "fetch", "json", "done"}
    /\ loading \in BOOLEAN
    /\ pageCached \in BOOLEAN
    /\ now \in 0..MaxNow

(***************************************************************************)
(* Vocabulary of the properties                                            *)
(***************************************************************************)
\* the snapshots the fetcher can return
Snapshots ==
    { MapResources(o.resources) :
        o \in {x \in UpstreamOutcomes : x.kind = "resources"} }

\* same descriptors in the same order, each with the same four fields
FieldsEqual(a, b) ==
    /\ Len(a) = Len(b)
    /\ \A i \in 1..Len(a) :
         \A k \in {"public_id", "url", "original_url", "title"} :
            Field(a[i], k) = Field(b[i], k)

\* r's awaited get resolves in this step
GetResolves(r) == pc[r] = "get" /\ pc'[r] # "get" /\ storeUp

\* r's awaited fetchImagesFromCloudinary settles in this step
FetchSettles(r) == pc[r] = "fetch" /\ pc'[r] # "fetch"

\* r's awaited setEx resolves in this step
SetExResolves(r) == pc[r] = "set" /\ pc'[r] # "set" /\ storeUp

\* the clear-cache request's awaited del resolves in this step
DelResolves == cpc = "del" /\ cpc' # "del" /\ storeUp

\* a clear-cache request arrives in this step
ClearArrives == cpc = "idle" /\ (cpc' = "del" \/ sent'.route = "clear")

\* time passes in this step: no handler moves and the entry ages
TimePasses ==
    /\ pc' = pc /\ cpc' = cpc
    /\ entry.present /\ entry' # entry

\* the last step answered an images request
ImagesAnswered == sent.route = "images"

(***************************************************************************)
(* C1 -- cache hit.  A request that found redisConnected set and whose get *)
(* resolves while the key holds an unexpired snapshot S answers 200 with   *)
(* success=true, cached=true and data = S (the parsed stored text) in that *)
(* very step, and fetchImagesFromCloudinary is never called for it.        *)
(***************************************************************************)
C1_HitServesSnapshot ==
    /\ [][\A r \in Slots :
            (GetResolves(r) /\ entry.present) =>
               /\ pc'[r] = "idle"
               /\ sent'.route = "images"
               /\ sent'.status = 200
               /\ sent'.success
               /\ sent'.cached
               /\ sent'.data = JSONparse(entry.val)
               /\ FieldsEqual(sent'.data, entrySnap)
               /\ sent'.fetchCalls = 0]_vars
    /\ [](sent.cached => (sent.fetchCalls = 0 /\ sent.seen.present))

\* a request was answered from the cache with a snapshot of two images
C1_Witness ==
    /\ ImagesAnswered
    /\ sent.cached
    /\ sent.seen.present
    /\ Len(sent.data) = 2

(***************************************************************************)
(* C2 -- cache miss.  A request whose get found the key absent, whose      *)
(* fetcher call succeeds while redisConnected is set and whose setEx       *)
(* resolves: it has called the fetcher exactly once, the entry becomes the *)
(* JSON text of the fetcher's result with 3600 seconds to live, and it     *)
(* answers 200 with success=true, cached=false and that result as data.    *)
(***************************************************************************)
C2_MissFetchesStoresAnswers ==
    [][\A r \in Slots :
         (seen[r].read /\ ~seen[r].present) =>
            /\ (FetchSettles(r) /\ pc'[r] = "set") =>
                  /\ fetchCalls'[r] = 1
                  /\ images'[r] \in Snapshots
                  /\ setArgs'[r].seconds = 3600
                  /\ setArgs'[r].value = JSONstringify(images'[r])
            /\ SetExResolves(r) =>
                  /\ entry'.present
                  /\ entry'.val = JSONstringify(images[r])
                  /\ entry'.ttl = 3600
                  /\ pc'[r] = "idle"
                  /\ sent'.route = "images"
                  /\ sent'.status = 200
                  /\ sent'.success
                  /\ ~sent'.cached
                  /\ sent'.data = images[r]
                  /\ sent'.fetchCalls = 1]_vars

\* a request that missed, fetched two images and stored them was answered
C2_Witness ==
    /\ ImagesAnswered
    /\ sent.seen.read /\ ~sent.seen.present
    /\ sent.status = 200 /\ ~sent.cached
    /\ sent.fetchCalls = 1
    /\ Len(sent.data) = 2
    /\ entry.present
    /\ entry.val = JSONstringify(sent.data)
    /\ entry.ttl = 3600

(***************************************************************************)
(* C3 -- cache store down.  Stated as the claim has it: whatever happens   *)
(* to the Redis server, an images request never answers with an error      *)
(* caused by the cache; the only error it can answer with is the           *)
(* fetcher's.                                                              *)
(***************************************************************************)
C3_NeverFailsOnCache ==
    (ImagesAnswered /\ sent.status # 200) => sent.error = FetchErrorMessage

(***************************************************************************)
(* C4 -- clear, then refetch.  The del of a clear-cache request is         *)
(* answered 200 and leaves the key absent, and it stays absent until an    *)
(* images request stores.  An images request whose get runs after a clear  *)
(* emptied a populated cache, nothing having been stored since, finds the  *)
(* key absent, calls the fetcher exactly once and never answers            *)
(* cached=true.                                                            *)
(***************************************************************************)
C4_ClearThenRefetch ==
    /\ [][DelResolves =>
             /\ ~entry'.present
             /\ sent'.route = "clear" /\ sent'.status = 200]_vars
    /\ [](gone = "clear" => ~entry.present)
    /\ [][\A r \in Slots :
            (GetResolves(r) /\ gone = "clear") =>
                (pc'[r] = "fetch" /\ seen'[r].after = "clear")]_vars
    /\ [](\A r \in Slots :
            seen[r].after = "clear" =>
               /\ ~seen[r].present
               /\ pc[r] = "fetch" => fetchCalls[r] = 0
               /\ pc[r] = "set" => fetchCalls[r] = 1)
    /\ [](sent.seen.after = "clear" =>
             /\ ~sent.cached
             /\ ~sent.seen.present
             /\ sent.fetchCalls = 1)

\* a request that read the key after a clear had emptied the populated
\* cache has fetched again and answered uncached
C4_Witness ==
    /\ ImagesAnswered
    /\ sent.seen.read /\ sent.seen.after = "clear"
    /\ sent.status = 200 /\ ~sent.cached
    /\ sent.fetchCalls = 1
    /\ Len(sent.data) = 2

(***************************************************************************)
(* C5 -- round trip.  The text the entry holds parses back to the images   *)
(* array it was serialized from, and the data of a cache hit has the same  *)
(* descriptors in the same order with the same public_id, url,             *)
(* original_url and title as that array.  (A field whose value is          *)
(* undefined is not written to the text and reads as undefined on the      *)
(* parsed object.)                                                         *)
(***************************************************************************)
C5_RoundTrip ==
    /\ [](entry.present =>
             /\ entrySnap \in Snapshots
             /\ FieldsEqual(JSONparse(entry.val), entrySnap))
    /\ [](sent.cached => FieldsEqual(sent.data, entrySnap))

\* a hit served a snapshot holding a descriptor without original_url and
\* with a quote and a backslash in its strings
C5_Witness ==
    /\ ImagesAnswered
    /\ sent.cached
    /\ Len(sent.data) = 2
    /\ Field(sent.data[1], "original_url") = Undefined
    /\ Field(sent.data[1], "title") = JStr(<<QUOTE, BACKSLASH>>)
    /\ Field(sent.data[2], "original_url") = JStr(<<"s">>)

(***************************************************************************)
(* C6 -- clear while the cache store is unavailable.  As claimed: a        *)
(* clear-cache request that arrives while the store is unavailable (the    *)
(* connection was never made, or the server is down) is answered 400 with  *)
(* success=false at once, without issuing a del and without changing the   *)
(* entry.                                                                  *)
(***************************************************************************)
C6_UnavailableClearIs400 ==
    [][(ClearArrives /\ (~redisConnected \/ ~storeUp)) =>
          /\ cpc' = "idle"
          /\ sent'.route = "clear"
          /\ sent'.status = 400
          /\ ~sent'.success
          /\ entry' = entry]_vars

(***************************************************************************)
(* C7 -- fetcher failure.  When the Cloudinary search of a request rejects *)
(* or settles without a resources array, the request answers 500 with      *)
(* success=false and the fetcher's error message, and the fetcher was      *)
(* called exactly once for it.                                             *)
(***************************************************************************)
C7_FetchFailureIs500 ==
    /\ [](sent.upstream \in {"rejected", "malformed"} =>
             /\ sent.route = "images"
             /\ sent.status = 500
             /\ ~sent.success
             /\ sent.error = FetchErrorMessage
             /\ sent.fetchCalls = 1)
    /\ [][\A r \in Slots :
            FetchSettles(r) =>
               \/ pc'[r] = "set" /\ fetchCalls'[r] = 1
               \/ pc'[r] = "idle" /\ sent'.route = "images"
                                  /\ sent'.fetchCalls = 1]_vars

\* a request whose search settled without resources was answered 500
C7_Witness ==
    /\ ImagesAnswered
    /\ sent.upstream = "malformed"
    /\ sent.status = 500
    /\ sent.fetchCalls = 1

(***************************************************************************)
(* C8 -- expiry.  Every store gives the entry 3600 seconds to live; as     *)
(* time passes the entry keeps its value while seconds are left and is     *)
(* gone once they are used up.  A request whose get runs after the entry   *)
(* expired, nothing having been stored since, finds no entry, calls the    *)
(* fetcher once, and its store gives the new entry 3600 seconds again.     *)
(***************************************************************************)
C8_ExpiryInvalidates ==
    /\ [](entry.present => (0 < entry.ttl /\ entry.ttl <= 3600))
    /\ [](gone = "expiry" => ~entry.present)
    /\ [][TimePasses =>
             \/ /\ entry'.present
                /\ entry'.val = entry.val
                /\ entry'.ttl < entry.ttl
             \/ entry' = NoEntry /\ gone' = "expiry"]_vars
    /\ [][\A r \in Slots :
            SetExResolves(r) => (entry'.present /\ entry'.ttl = 3600)]_vars
    /\ [][\A r \in Slots :
            (GetResolves(r) /\ gone = "expiry") =>
                (pc'[r] = "fetch" /\ seen'[r].after = "expiry")]_vars
    /\ [](\A r \in Slots :
            seen[r].after = "expiry" =>
               /\ ~seen[r].present
               /\ pc[r] = "set" => fetchCalls[r] = 1)
    /\ [](sent.seen.after = "expiry" =>
             /\ ~sent.cached
             /\ ~sent.seen.present
             /\ sent.fetchCalls = 1)

\* a request that read the key after the entry had expired has fetched and
\* stored a new entry with 3600 seconds to live
C8_Witness ==
    /\ ImagesAnswered
    /\ sent.seen.read /\ sent.seen.after = "expiry"
    /\ sent.status = 200 /\ ~sent.cached
    /\ entry.present
    /\ entry.val = JSONstringify(sent.data)
    /\ entry.ttl = 3600

(***************************************************************************)
(* C9 -- overlapping misses.  Every request whose get found the key absent *)
(* calls the fetcher itself and never answers cached=true, whatever the    *)
(* other requests do; each store replaces the entry by the text of the     *)
(* storing request's own snapshot, so the entry always holds the snapshot  *)
(* of the store that executed last and never parts of two.                 *)
(***************************************************************************)
C9_LastWriterWins ==
    /\ [](\A r \in Slots :
            (seen[r].read /\ pc[r] = "set") => fetchCalls[r] = 1)
    /\ []((ImagesAnswered /\ sent.seen.read /\ ~sent.seen.present) =>
             (~sent.cached /\ sent.fetchCalls = 1))
    /\ [][\A r \in Slots :
            SetExResolves(r) =>
               /\ entry'.val = JSONstringify(images[r])
               /\ entrySnap' = images[r]
               /\ sent'.data = images[r]
               /\ ~sent'.cached]_vars
    /\ [](entry.present =>
             /\ entry.val = JSONstringify(entrySnap)
             /\ entrySnap \in Snapshots)

\* a request that missed while another one was in flight has replaced the
\* other's different snapshot in the entry by its own and answered uncached
C9_Witness ==
    /\ ImagesAnswered
    /\ sent.seen.read /\ ~sent.seen.present
    /\ sent.status = 200 /\ ~sent.cached
    /\ sent.fetchCalls = 1
    /\ sent.overwrote
    /\ entry.present
    /\ entry.val = JSONstringify(sent.data)
    /\ entrySnap = sent.data

(***************************************************************************)
(* C10 -- the entry is a whole snapshot.  In every state the entry is      *)
(* absent or holds the text of one snapshot of the fetcher.  Its value     *)
(* changes only when a setEx of an images request replaces it by the text  *)
(* of that request's snapshot, when a del removes it, or when its time to  *)
(* live runs out; a get leaves value and time to live as they were.        *)
(***************************************************************************)
C10_EntryIsWholeSnapshot ==
    /\ [](entry.present => \E sn \in Snapshots : entry.val = JSONstringify(sn))
    /\ [](~entry.present => entry = NoEntry)
    /\ [][(entry'.present # entry.present \/ entry'.val # entry.val) =>
            \/ \E r \in Slots :
                  /\ SetExResolves(r)
                  /\ entry' = [present |-> TRUE,
                               val |-> JSONstringify(images[r]),
                               ttl |-> CACHE_TTL]
            \/ DelResolves /\ entry' = NoEntry
            \/ TimePasses /\ entry' = NoEntry]_vars
    /\ [][\A r \in Slots : GetResolves(r) => entry' = entry]_vars

\* a request was answered from the cache some time after the store, and the
\* entry is as the get found it
C10_Witness ==
    /\ ImagesAnswered
    /\ sent.cached
    /\ entry.present
    /\ sent.data = JSONparse(entry.val)
    /\ entry.ttl < CACHE_TTL

(***************************************************************************)
(* C11 -- a request that skipped the cache read does not write either.  As *)
(* claimed: when the Cloudinary search of a request that found             *)
(* redisConnected unset on arrival (and so issued no get) settles, the     *)
(* request is answered in that step without a setEx, the entry is left as  *)
(* it was, and a 200 answer carries cached=false -- whenever the initial   *)
(* connect completes.                                                      *)
(***************************************************************************)
C11_SkippedReadNeverWrites ==
    [][\A r \in Slots :
         (FetchSettles(r) /\ ~seen[r].read) =>
            /\ pc'[r] = "idle"
            /\ entry' = entry
            /\ sent'.route = "images"
            /\ sent'.status = 200 => ~sent'.cached]_vars

(***************************************************************************)
(* C12 -- a failed fetch writes nothing.  A request whose Cloudinary       *)
(* search rejects or settles without resources is answered 500 in that     *)
(* step and never awaits a setEx: only a request whose search returned     *)
(* resources stores.  The only step of a request that changes the entry is *)
(* its resolved setEx, so the entry is what it was before the failed       *)
(* request; a later get that finds the key absent goes on to the fetcher.  *)
(***************************************************************************)
C12_FetchFailureWritesNothing ==
    /\ [](\A r \in Slots : pc[r] = "set" => upstream[r] = "resources")
    /\ [][\A r \in Slots :
            (FetchSettles(r) /\ pc'[r] # "set") =>
               /\ sent'.route = "images"
               /\ entry' = entry
               /\ entrySnap' = entrySnap
               /\ sent'.upstream \in {"rejected", "malformed"} =>
                     sent'.status = 500]_vars
    /\ [][\A r \in Slots :
            (pc'[r] # pc[r] /\ entry' # entry) =>
               (SetExResolves(r) /\ upstream[r] = "resources")]_vars
    /\ [](sent.upstream \in {"rejected", "malformed"} =>
             (sent.status = 500 /\ ~sent.overwrote))
    /\ [][\A r \in Slots :
            (GetResolves(r) /\ ~entry.present) => pc'[r] = "fetch"]_vars

\* a request that missed and whose search was rejected has been answered 500
\* and the key is still absent
C12_Witness ==
    /\ ImagesAnswered
    /\ sent.upstream = "rejected"
    /\ sent.seen.read /\ ~sent.seen.present
    /\ sent.status = 500
    /\ sent.fetchCalls = 1
    /\ ~entry.present

(***************************************************************************)
(* C13 -- hits never extend the expiry.  Every answer with cached=true     *)
(* serves the text the entry holds, and that entry was stored at most 3600 *)
(* seconds earlier: the seconds since the store and the seconds the entry  *)
(* has left always add up to 3600, and a get that resolves, hit or miss,   *)
(* changes neither the entry nor the time of its store.                    *)
(***************************************************************************)
C13_HitsNeverExtendExpiry ==
    /\ [](sent.cached =>
             /\ entry.present
             /\ sent.data = JSONparse(entry.val)
             /\ storedAgo <= 3600)
    /\ [](entry.present => storedAgo + entry.ttl = 3600)
    /\ [][\A r \in Slots :
            GetResolves(r) =>
               (entry' = entry /\ storedAgo' = storedAgo)]_vars
    /\ [][sent'.cached => (entry' = entry /\ storedAgo' = storedAgo)]_vars

\* a hit in the last second of the entry's life: stored 3599 seconds ago,
\* one second left
C13_Witness ==
    /\ ImagesAnswered
    /\ sent.cached
    /\ storedAgo = 3599
    /\ entry.ttl = 1

(***************************************************************************)
(* C14 -- the connected flag is monotone.  redisConnected starts false, is *)
(* set only by the step in which the pending connect resolves, and is      *)
(* never cleared; once the connect has settled it does not settle again,   *)
(* so after a rejected connect the flag stays false.  GET /health answers  *)
(* 200 with the flag's current value, hence once it has reported           *)
(* "connected" it reports "connected" ever after, and its step leaves the  *)
(* entry, the requests in flight and the flag as they were.                *)
(***************************************************************************)
C14_FlagIsMonotone ==
    /\ redisConnected = FALSE
    /\ [](redisConnected <=> connectState = "resolved")
    /\ [][redisConnected => redisConnected']_vars
    /\ [][(~redisConnected /\ redisConnected') =>
            (connectState = "pending" /\ connectState' = "resolved"
                                      /\ storeUp)]_vars
    /\ [][connectState # "pending" => connectState' = connectState]_vars
    /\ [](sent.route = "health" =>
             /\ sent.status = 200
             /\ sent.redis = IF redisConnected THEN "connected"
                                               ELSE "disconnected")
    /\ []((sent.route = "health" /\ sent.redis = "connected") =>
             [](sent.route = "health" => sent.redis = "connected"))
    /\ [][sent'.route = "health" =>
            UNCHANGED <<redisConnected, connectState, storeUp, entry, pc,
                        images, setArgs, fetchCalls, seen, upstream, cpc,
                        entrySnap, gone, storedAgo>>]_vars

\* /health reports "connected" while the Redis server is down and the key
\* is set
C14_Witness ==
    /\ sent.route = "health"
    /\ sent.redis = "connected"
    /\ ~storeUp
    /\ entry.present

(***************************************************************************)
(* C15 -- exactly one response.  When every awaited Redis command and      *)
(* Cloudinary search settles, every images request in flight is eventually *)
(* answered, and so is the clear-cache request.  A response goes out only  *)
(* in the step that ends its request and ends exactly one request; a       *)
(* handler that moves on to its next await sends nothing.  An images       *)
(* request is answered with a hit (200, cached=true), a miss (200,         *)
(* cached=false) or an error (500), a clear-cache request with 200, 400    *)
(* or 500.                                                                 *)
(***************************************************************************)
C15_ExactlyOneResponse ==
    /\ [][sent'.route = "images" =>
            Cardinality({r \in Slots : pc[r] # "idle" /\ pc'[r] = "idle"})
               = 1]_vars
    /\ [][\A r \in Slots :
            /\ (pc[r] # "idle" /\ pc'[r] = "idle") => sent'.route = "images"
            /\ (pc'[r] # pc[r] /\ pc'[r] # "idle") => sent' = NoneSent]_vars
    /\ [](sent.route = "images" =>
             \/ sent.status = 200 /\ sent.success /\ sent.cached
             \/ sent.status = 200 /\ sent.success /\ ~sent.cached
             \/ sent.status = 500 /\ ~sent.success /\ ~sent.cached)
    /\ [][sent'.route = "clear" =>
            /\ cpc' = "idle"
            /\ \/ cpc = "del" /\ sent'.status \in {200, 500}
               \/ cpc = "idle" /\ sent'.status = 400]_vars
    /\ [][/\ (cpc = "del" /\ cpc' = "idle") => sent'.route = "clear"
          /\ (cpc = "idle" /\ cpc' = "del") => sent' = NoneSent]_vars
    /\ [](sent.route = "clear" => (sent.success <=> sent.status = 200))
    /\ \A r \in Slots : (pc[r] # "idle") ~> (pc[r] = "idle")
    /\ (cpc = "del") ~> (cpc = "idle")

\* a request whose setEx was rejected after a successful search got its one
\* response, a 500, and no handler is left running
C15_Witness ==
    /\ sent.route = "images"
    /\ sent.status = 500
    /\ sent.upstream = "resources"
    /\ sent.seen.read
    /\ \A r \in Slots : pc[r] = "idle"
    /\ cpc = "idle"

(***************************************************************************)
(* C16 -- the page after its fetch settled.  The fetch issued by the       *)
(* effect settles once; from then on loading is false and loading, error,  *)
(* images and cached no longer change.  error is non-null exactly when the *)
(* fetch did not succeed (it rejected, the status was outside 200-299, the *)
(* body was no JSON, or the body's success was false), and then images is  *)
(* still empty and cached still false.                                     *)
(***************************************************************************)
C16_PageAfterFetchSettled ==
    /\ [](outcome # "pending" <=> ppc = "done")
    /\ [](ppc # "done" => (loading /\ pageImages = <<>> /\ ~pageCached))
    /\ [](outcome # "pending" =>
             /\ ~loading
             /\ ~pageError.isNull <=> outcome # "success"
             /\ outcome # "success" => (pageImages = <<>> /\ ~pageCached))
    /\ [][outcome # "pending" =>
            UNCHANGED <<outcome, ppc, loading, pageError, pageImages,
                        pageCached>>]_vars

\* a 200 response whose body says success=false without an error text: the
\* page shows the default message and no images
C16_Witness ==
    /\ outcome = "body"
    /\ ~loading
    /\ pageError = [isNull |-> FALSE, msg |-> <<"Failed to fetch images">>]
    /\ pageImages = <<>>
    /\ ~pageCached

====
